---- MODULE Spec2Model ----
(***************************************************************************)
(* Model of api/index.js: an Express application with a memoized MongoDB   *)
(* connection (connectToDatabase), a connection middleware in front of the *)
(* routes, and four routes: GET /api/answers, POST /api/upload,            *)
(* DELETE /api/answers/:id and GET /api/uploads/:fileName.                 *)
(*                                                                         *)
(* Node runs one callback at a time.  A request is therefore a chain of    *)
(* atomic steps, one per continuation: each action below is the code that  *)
(* runs from one await (or callback) to the next, the awaited store or     *)
(* disk operation taking effect at the start of the step that resumes      *)
(* after it.  Steps of different requests interleave freely.  The model    *)
(* covers one process lifetime, during which nothing else touches /tmp.    *)
(***************************************************************************)
EXTENDS Integers, Sequences, FiniteSets, TLC

\* ---------------------------------------------------------------- bounds
MaxReq == 2      \* requests received during the process lifetime (under Spec)
MaxTime == 1     \* Date.now() takes the values 0..MaxTime

\* SpecMore receives one request more than Spec
Requests == 1..(MaxReq + 1)
Times == 0..MaxTime
\* the :id of a delete: 0 is the _id of the document the collection may hold
\* when the process starts, 1, 2, ... are those new Answer() generates
Ids == 0..MaxReq

\* ---------------------------------------------------------------- values
\* JavaScript null / undefined; strings, buffers and objects are non-empty
\* tuples.
Null == <<>>

\* file.originalname of the uploaded part
Names == {"a.pdf"}
\* the bytes of the file part of request r: every request sends its own
Contents(r) == {<<r>>}
\* file.mimetype
MimeTypes == {<<"application", "pdf">>}
\* req.body.uploadDate: strings over the digits, compared as strings
Dates == {<<2>>, <<1, 0>>}
\* the value mongoose.connect resolves to (the mongoose singleton)
Mongoose == <<"mongoose">>

\* path.join('/tmp', 'uploads')
uploadDir == <<"tmp", "uploads">>

\* path.join(dir, name): the components of dir followed by those of name
PathJoin(dir, name) == dir \o name

\* Date.now() + "-" + file.originalname.  The timestamp is all digits, so the
\* string determines the pair and the pair models the string.
FileNameOf(t, originalname) == <<t, originalname>>

FileNames == {FileNameOf(t, n) : t \in Times, n \in Names}
Paths == {PathJoin(uploadDir, f) : f \in FileNames}

\* A document saved by an earlier process, whose file went with that
\* process's /tmp: its timestamp lies before this process started.
LegacyAnswer ==
    [_id |-> 0,
     fileName |-> FileNameOf(-1, "a.pdf"),
     filePath |-> PathJoin(uploadDir, FileNameOf(-1, "a.pdf")),
     uploadDate |-> <<1, 0>>,
     mimeType |-> <<"application", "pdf">>]

VARIABLES
    mongoURI,      \* process.env.MONGO_URI
    cachedDb,      \* let cachedDb
    established,   \* number of mongoose.connect calls that resolved
    now,           \* the value Date.now() returned last
    nextId,        \* the next ObjectId new Answer() generates
    answers,       \* the Answer collection, in insertion order
    disk,          \* the files under uploadDir: path -> content or Null
    req,           \* the requests: position, inputs, locals, response
    limit,         \* the number of requests this process lifetime receives
    flight,        \* the number of requests it has in flight at most
    raced,         \* two mongoose.connect calls have been pending at once
    seen,          \* the kinds of failure so far: "connect", "handler"
    uploaded       \* <<fileName, content>> of the upload answered 201 just now

vars == <<mongoURI, cachedDb, established, now, nextId, answers, disk, req,
          limit, flight, raced, seen, uploaded>>

\* ------------------------------------------------------------- requests
\* A request is "done" in the state its response is sent in.  The next step
\* of the process closes it: "closing" while its fs.unlink callback is still
\* to come, "gone" otherwise.
IdleReq ==
    [pc |-> "idle", kind |-> "none",
     file |-> Null, uploadDate |-> Null, id |-> 0, fileName |-> Null,
     afterConnect |-> FALSE, attempts |-> 0, handle |-> Null,
     answer |-> Null, existed |-> FALSE, newAnswer |-> Null, cleanup |-> "none",
     status |-> 0, resBody |-> Null, responses |-> 0,
     failed |-> "none", wrote |-> FALSE, trace |-> <<>>]

GoneReq == [IdleReq EXCEPT !.pc = "gone"]

Kinds == {"list", "upload", "delete", "serve"}

\* req.params of a request of each route (read when the route is entered)
Params(kind) ==
    CASE kind = "delete" -> {[id |-> i, fileName |-> Null] : i \in Ids}
      [] kind = "serve" -> {[id |-> 0, fileName |-> f] : f \in FileNames}
      [] OTHER -> {[id |-> 0, fileName |-> Null]}

\* the multipart body of upload request r (parsed by multer): the optional
\* file part and the uploadDate field
Bodies(r) ==
    {[file |-> f, uploadDate |-> d] :
        f \in {Null} \cup {<<[originalname |-> n, mimetype |-> m, content |-> c]>> :
                              n \in Names, m \in MimeTypes, c \in Contents(r)},
        d \in Dates}

InFlight(q) == q.pc \notin {"idle", "done", "closing", "gone"}

\* the request q one step after its response
Closed(q) ==
    IF q.pc = "done"
    THEN IF q.cleanup = "pending" THEN [q EXCEPT !.pc = "closing"] ELSE GoneReq
    ELSE q

\* the requests after a step that leaves request r as q
Put(r, q) == [o \in Requests |-> IF o = r THEN q ELSE Closed(req[o])]

\* res.status(s).json(b) / res.send / res.sendFile: the response of a request
Respond(q, s, b) ==
    [q EXCEPT !.pc = "done", !.status = s, !.resBody = b,
              !.responses = @ + 1, !.trace = Append(@, "responded")]

\* fs.existsSync(p)
existsSync(p) == p \in DOMAIN disk /\ disk[p] # Null

\* ------------------------------------------------------------ the store
\* string comparison of two uploadDate values: a < b
RECURSIVE StrLess(_, _)
StrLess(a, b) ==
    IF b = <<>> THEN FALSE
    ELSE IF a = <<>> THEN TRUE
    ELSE IF Head(a) # Head(b) THEN Head(a) < Head(b)
    ELSE StrLess(Tail(a), Tail(b))

\* insert document d into s, which is sorted by uploadDate descending
RECURSIVE InsertDesc(_, _)
InsertDesc(d, s) ==
    IF s = <<>> THEN <<d>>
    ELSE IF StrLess(Head(s).uploadDate, d.uploadDate) THEN <<d>> \o s
    ELSE <<Head(s)>> \o InsertDesc(d, Tail(s))

\* (mutant) the sort forgotten: the documents in insertion order
SortNone(s) == s

\* .sort({ uploadDate: -1 })
RECURSIVE SortDesc(_)
SortDesc(s) ==
    IF s = <<>> THEN <<>>
    ELSE InsertDesc(s[Len(s)], SortDesc(SubSeq(s, 1, Len(s) - 1)))

\* Answer.find().sort({ uploadDate: -1 })
FindSorted == SortDesc(answers)

\* (mutant) findOne() for findById(id): the first document, whatever its _id
FindByIdFirst(id) == IF answers # <<>> THEN <<answers[1]>> ELSE Null

\* Answer.findById(id): the document, or Null
FindById(id) ==
    IF \E i \in 1..Len(answers) : answers[i]._id = id
    THEN <<answers[CHOOSE i \in 1..Len(answers) : answers[i]._id = id]>>
    ELSE Null

\* Answer.findByIdAndDelete(id): the collection without the document
RemoveById(id) == SelectSeq(answers, LAMBDA a : a._id # id)

\* new Answer({...}) of the upload handler
NewAnswer(q, id) ==
    [_id |-> id,
     fileName |-> IF q.file # Null THEN q.fileName ELSE Null,
     filePath |-> IF q.file # Null THEN PathJoin(uploadDir, q.fileName) ELSE Null,
     uploadDate |-> q.uploadDate,
     mimeType |-> IF q.file # Null THEN q.file[1].mimetype ELSE Null]

\* ----------------------------------------------------------- the routes
\* GET /api/uploads/:fileName, which runs to its response without an await
ServeFile(q) ==
    LET filePath == PathJoin(uploadDir, q.fileName)
    IN  IF existsSync(filePath)
        THEN Respond(q, 200, disk[filePath])
        ELSE Respond(q, 404, Null)

\* the first awaited operation of each route
RouteStart(kind) ==
    CASE kind = "list" -> "list_find"
      [] kind = "upload" -> "upload_multer"
      [] kind = "delete" -> "delete_find"

\* next() of the connection middleware: the request enters its route,
\* whose parameters are par
Dispatch(q, par) ==
    LET h == [q EXCEPT !.id = par.id, !.fileName = par.fileName,
                       !.trace = Append(@, "handled")]
    IN  IF q.kind = "serve" THEN ServeFile(h)
        ELSE [h EXCEPT !.pc = RouteStart(q.kind)]

\* the connection middleware after connectToDatabase returned db
GatePassed(q, db, par) ==
    Dispatch([q EXCEPT !.handle = db, !.trace = Append(@, "connected")], par)

\* (mutant) the catch of the connection middleware calling next()
GateFailedNext(q) ==
    [q EXCEPT !.failed = "connect", !.trace = Append(@, "handled"),
              !.pc = IF q.kind = "serve" THEN "done" ELSE RouteStart(q.kind)]

\* the catch of the connection middleware
GateFailed(q) == Respond([q EXCEPT !.failed = "connect"], 500, Null)

\* (mutant) connectToDatabase without the check of cachedDb
ConnectStartUncached(q, par) ==
    IF mongoURI = Null THEN GateFailed(q)
    ELSE [q EXCEPT !.pc = "connecting", !.attempts = @ + 1]

\* connectToDatabase up to its first await, for request q: the request with
\* the cached handle, or rejected for want of MONGO_URI, or awaiting connect
ConnectStart(q, par) ==
    IF cachedDb # Null THEN GatePassed(q, cachedDb, par)
    ELSE IF mongoURI = Null THEN GateFailed(q)
    ELSE [q EXCEPT !.pc = "connecting", !.attempts = @ + 1]

\* A request arrives: the connection middleware calls connectToDatabase,
\* which runs to its first await.
Receive(r) ==
    /\ req[r].pc = "idle"
    /\ r <= limit
    /\ Cardinality({o \in Requests : InFlight(req[o])}) < flight
    /\ \A o \in 1..(r - 1) : req[o].pc # "idle"
    /\ \E kind \in Kinds :
         LET q == [IdleReq EXCEPT !.kind = kind,
                                  !.afterConnect = (established > 0),
                                  !.trace = <<"received">>]
         IN  /\ \E par \in (IF cachedDb # Null THEN Params(kind) ELSE Params("list")) :
                    req' = Put(r, ConnectStart(q, par))
             /\ uploaded' = IF kind = "serve" /\ cachedDb # Null
                            THEN uploaded ELSE Null
    /\ raced' = (raced \/ (req'[r].pc = "connecting"
                           /\ \E o \in Requests \ {r} : req[o].pc = "connecting"))
    /\ seen' = IF req'[r].failed = "connect" THEN seen \cup {"connect"} ELSE seen
    /\ UNCHANGED <<mongoURI, cachedDb, established, now, nextId, answers, disk, limit, flight>>

\* mongoose.connect resolved: cachedDb = db; return db; next()
ConnectResolve(r) ==
    /\ req[r].pc = "connecting"
    /\ cachedDb' = Mongoose
    /\ established' = established + 1
    /\ \E par \in Params(req[r].kind) : req' = Put(r, GatePassed(req[r], Mongoose, par))
    /\ uploaded' = Null
    /\ UNCHANGED <<mongoURI, now, nextId, answers, disk, limit, flight, raced, seen>>

\* (mutant) the pending promise memoized before it settled
UnmemoizedStale == <<"rejected">>

\* the value cachedDb has after mongoose.connect rejected
Unmemoized == cachedDb

\* mongoose.connect rejected: the error is logged and thrown again
ConnectReject(r) ==
    /\ req[r].pc = "connecting"
    /\ cachedDb' = Unmemoized
    /\ req' = Put(r, GateFailed(req[r]))
    /\ seen' = seen \cup {"connect"}
    /\ uploaded' = Null
    /\ UNCHANGED <<mongoURI, established, now, nextId, answers, disk, limit, flight, raced>>

\* (mutant) the catch of a route handler awaiting the operation again
HandlerRetries(q, op) == [q EXCEPT !.failed = op]

\* the catch of a route handler
HandlerFailed(q, op) == Respond([q EXCEPT !.failed = op], 500, Null)

\* a rejected store operation of request r, awaited at position p
StoreRejects(r, p) ==
    /\ req[r].pc = p
    /\ req' = Put(r, HandlerFailed(req[r], p))
    /\ seen' = seen \cup {"handler"}
    /\ uploaded' = Null
    /\ UNCHANGED <<mongoURI, cachedDb, established, now, nextId, answers, disk, limit, flight, raced>>

\* GET /api/answers after the find resolved
ListFind(r) ==
    /\ req[r].pc = "list_find"
    /\ req' = Put(r, Respond(req[r], 200, FindSorted))
    /\ uploaded' = Null
    /\ UNCHANGED <<mongoURI, cachedDb, established, now, nextId, answers, disk, limit, flight, raced, seen>>

ListFindRejects(r) == StoreRejects(r, "list_find")

\* the values Date.now() may return: the clock does not run backwards
DateNow == now..MaxTime

\* upload.single("file") stored the part (if any) under the generated name;
\* the handler then builds newAnswer and calls save()
UploadMulter(r) ==
    /\ req[r].pc = "upload_multer"
    /\ \E body \in Bodies(r), t \in DateNow :
       LET q == [req[r] EXCEPT !.file = body.file, !.uploadDate = body.uploadDate]
           name == IF q.file # Null THEN FileNameOf(t, q.file[1].originalname) ELSE Null
           f == [q EXCEPT !.fileName = name, !.wrote = (q.file # Null)]
       IN  /\ now' = IF q.file # Null THEN t ELSE now
           /\ disk' = IF q.file # Null
                      THEN [disk EXCEPT ![PathJoin(uploadDir, name)] = q.file[1].content]
                      ELSE disk
           /\ req' = Put(r, [f EXCEPT !.pc = "upload_save",
                                      !.newAnswer = <<NewAnswer(f, nextId)>>])
    /\ nextId' = nextId + 1
    /\ uploaded' = Null
    /\ UNCHANGED <<mongoURI, cachedDb, established, answers, limit, flight, raced, seen>>

\* POST /api/upload after save() resolved
UploadSave(r) ==
    /\ req[r].pc = "upload_save"
    /\ answers' = Append(answers, req[r].newAnswer[1])
    /\ req' = Put(r, Respond([req[r] EXCEPT !.wrote = TRUE], 201, req[r].newAnswer))
    /\ uploaded' = IF req[r].file # Null
                   THEN <<req[r].fileName, req[r].file[1].content>> ELSE Null
    /\ UNCHANGED <<mongoURI, cachedDb, established, now, nextId, disk, limit, flight, raced, seen>>

UploadSaveRejects(r) == StoreRejects(r, "upload_save")

\* the file cleanup of the delete handler: what it does with answer.filePath
Cleanup(answer) ==
    IF answer.filePath = Null THEN "nofile"
    ELSE IF existsSync(answer.filePath) THEN "pending"
    ELSE "missing"

\* the delete handler after findById resolved with answer
DeleteFound(q, answer) ==
    IF answer = Null THEN Respond(q, 404, Null)
    ELSE [q EXCEPT !.pc = "delete_remove", !.answer = answer,
                   !.cleanup = Cleanup(answer[1])]

\* DELETE /api/answers/:id after findById resolved
DeleteFind(r) ==
    /\ req[r].pc = "delete_find"
    /\ LET q == [req[r] EXCEPT !.existed = (\E i \in 1..Len(answers) :
                                               answers[i]._id = req[r].id)]
       IN  req' = Put(r, DeleteFound(q, FindById(q.id)))
    /\ uploaded' = Null
    /\ UNCHANGED <<mongoURI, cachedDb, established, now, nextId, answers, disk, limit, flight, raced, seen>>

DeleteFindRejects(r) == StoreRejects(r, "delete_find")

\* request q after its fs.unlink called back with outcome c
Unlinked(q, c) ==
    IF q.pc \in {"done", "closing"} THEN GoneReq
    ELSE [q EXCEPT !.cleanup = c, !.wrote = (@ \/ c = "unlinked")]

\* the callback of fs.unlink: the file is gone, or err is logged
UnlinkDone(r) ==
    /\ req[r].cleanup = "pending"
    /\ LET p == req[r].answer[1].filePath
       IN  \/ /\ existsSync(p)
              /\ disk' = [disk EXCEPT ![p] = Null]
              /\ req' = Put(r, Unlinked(req[r], "unlinked"))
           \/ /\ disk' = disk
              /\ req' = Put(r, Unlinked(req[r], "unlink_failed"))
    /\ uploaded' = Null
    /\ UNCHANGED <<mongoURI, cachedDb, established, now, nextId, answers, limit, flight, raced, seen>>

\* (mutant) the delete handler failing when the file was not cleaned up
DeleteRemovedStrict(q) ==
    IF q.cleanup \in {"missing", "unlink_failed"}
    THEN Respond(q, 500, Null)
    ELSE Respond([q EXCEPT !.wrote = TRUE], 200, Null)

\* the delete handler after findByIdAndDelete resolved
DeleteRemoved(q) == Respond([q EXCEPT !.wrote = TRUE], 200, Null)

\* DELETE /api/answers/:id after findByIdAndDelete resolved
DeleteRemove(r) ==
    /\ req[r].pc = "delete_remove"
    /\ answers' = RemoveById(req[r].id)
    /\ req' = Put(r, DeleteRemoved(req[r]))
    /\ uploaded' = Null
    /\ UNCHANGED <<mongoURI, cachedDb, established, now, nextId, disk, limit, flight, raced, seen>>

DeleteRemoveRejects(r) == StoreRejects(r, "delete_remove")

\* the state once the module is loaded; l requests are received in all,
\* at most f of them in flight together
Start(l, f) ==
    /\ limit = l
    /\ flight = f
    /\ mongoURI \in {Null, <<"mongodb://">>}
    /\ cachedDb = Null
    /\ established = 0
    /\ now = 0
    /\ nextId = 1
    /\ answers \in {<<>>, <<LegacyAnswer>>}
    /\ disk = [p \in Paths |-> Null]
    /\ req = [r \in Requests |-> IdleReq]
    /\ raced = FALSE
    /\ seen = {}
    /\ uploaded = Null

Init == Start(MaxReq, MaxReq)

\* the same process, receiving one request more
InitMore == Start(MaxReq + 1, MaxReq + 1)

\* the requests received with one fewer in flight
InitLive == Start(MaxReq, MaxReq - 1)

\* the steps of request r after its arrival
Progress(r) ==
    \/ ConnectResolve(r)
    \/ ConnectReject(r)
    \/ ListFind(r)
    \/ ListFindRejects(r)
    \/ UploadMulter(r)
    \/ UploadSave(r)
    \/ UploadSaveRejects(r)
    \/ DeleteFind(r)
    \/ DeleteFindRejects(r)
    \/ UnlinkDone(r)
    \/ DeleteRemove(r)
    \/ DeleteRemoveRejects(r)

Next == \E r \in Requests : Receive(r) \/ Progress(r)

\* MaxReq requests, in flight together or not
Spec == Init /\ [][Next]_vars

\* the same process, receiving one request more
SpecMore == InitMore /\ [][Next]_vars

\* Node runs every callback whose operation has completed: a request whose
\* store and disk operations complete takes its next step.  The requests are
\* received with one fewer in flight than under Spec.
LiveSpec ==
    /\ InitLive /\ [][Next]_vars
    /\ \A r \in Requests : WF_vars(Progress(r))

\* ------------------------------------------------------------ properties
Range(f) == {f[i] : i \in DOMAIN f}

\* the requests whose fields are those of a request received (not yet gone)
Present(r) == req[r].pc \notin {"idle", "gone"}

\* the request answered by the step into this state
Answered(r) == req[r].pc = "done"

StoreOps == {"list_find", "upload_save", "delete_find", "delete_remove"}

\* C1: a request whose connectToDatabase failed is answered 500 and never
\* enters its route: no handler (nor multer) runs for it and it writes neither
\* a document nor a file; and a request enters its route only with a handle
\* from the connection middleware.
C1_GateRejects ==
    \A r \in Requests :
        /\ req[r].failed = "connect" =>
              /\ Answered(r) /\ req[r].status = 500
              /\ "handled" \notin Range(req[r].trace)
              /\ ~req[r].wrote
              /\ req[r].file = Null /\ req[r].newAnswer = Null /\ req[r].answer = Null
        /\ "handled" \in Range(req[r].trace) =>
              /\ req[r].handle # Null
              /\ req[r].trace[2] = "connected"

\* an upload whose connection attempt was rejected: answered 500, no file
C1_Witness ==
    \E r \in Requests :
        /\ req[r].kind = "upload" /\ req[r].failed = "connect" /\ req[r].attempts = 1
        /\ Answered(r) /\ req[r].status = 500
        /\ \A p \in Paths : ~existsSync(p)

\* C2: once a connectToDatabase call has succeeded the handle stays in
\* cachedDb; a request arriving afterwards gets that handle without a
\* connection attempt; unless two attempts were pending at once, the
\* connection is established at most once.
C2_Memoized ==
    /\ established > 0 => cachedDb = Mongoose
    /\ \A r \in Requests :
          Present(r) /\ req[r].afterConnect =>
              /\ req[r].attempts = 0
              /\ req[r].handle = cachedDb
    /\ ~raced => established <= 1

\* a request that arrived after the only connection was made and succeeded
C2_Witness ==
    \E r \in Requests :
        /\ req[r].afterConnect /\ Answered(r) /\ req[r].status \in {200, 201}
        /\ established = 1 /\ ~raced

\* C3: a failed connectToDatabase call is answered with the error and no
\* handle, and memoizes nothing; a call that finds no handle (and a
\* MONGO_URI) makes one fresh attempt, and no request makes a second one.
C3_FailureNotMemoized ==
    /\ established = 0 => cachedDb = Null
    /\ \A r \in Requests :
          /\ req[r].attempts <= 1
          /\ req[r].failed = "connect" => req[r].status = 500 /\ req[r].handle = Null
          /\ Present(r) /\ ~req[r].afterConnect /\ mongoURI # Null => req[r].attempts = 1

\* after a failed call, a later request made a fresh attempt, which succeeded
C3_Witness ==
    /\ "connect" \in seen /\ ~raced /\ established = 1
    /\ \E r \in Requests :
          Answered(r) /\ req[r].attempts = 1 /\ req[r].status \in {200, 201}

C5_DeleteSucceeds ==
    \A r \in Requests :
        req[r].kind = "delete" /\ Answered(r) /\ req[r].failed = "none" /\ req[r].existed
            => /\ req[r].status = 200
               /\ \A i \in 1..Len(answers) : answers[i]._id # req[r].id
               /\ req[r].cleanup \in {"nofile", "missing", "pending", "unlinked", "unlink_failed"}

\* a delete answered 200 although its unlink failed and the file is still there
C5_Witness ==
    \E r \in Requests :
        /\ req[r].kind = "delete" /\ Answered(r) /\ req[r].status = 200
        /\ req[r].cleanup = "unlink_failed"
        /\ existsSync(req[r].answer[1].filePath)

\* a delete answered 200 for a document whose file was already missing
C5_WitnessMissing ==
    \E r \in Requests :
        /\ req[r].kind = "delete" /\ Answered(r) /\ req[r].status = 200
        /\ req[r].cleanup = "missing"

\* C6: the document of a 201 has fileName, filePath and mimeType all null
\* when the request had no file part and all non-null when it had one, and
\* then the file at filePath exists when the 201 is sent.
C6_UploadFields ==
    \A r \in Requests :
        req[r].kind = "upload" /\ Answered(r) /\ req[r].status = 201 =>
            LET a == req[r].resBody[1]
            IN  IF req[r].file = Null
                THEN a.fileName = Null /\ a.filePath = Null /\ a.mimeType = Null
                ELSE /\ a.fileName # Null /\ a.filePath # Null /\ a.mimeType # Null
                     /\ existsSync(a.filePath)

\* C7: no two documents of the collection have the same non-null filePath.
C7_NoSharedFile ==
    \A i, j \in 1..Len(answers) :
        i # j /\ answers[i].filePath # Null => answers[i].filePath # answers[j].filePath

\* C8: a 200 of GET /api/answers carries exactly the documents of the
\* collection, each once, those with the greater uploadDate first.
C8_ListSorted ==
    \A r \in Requests :
        req[r].kind = "list" /\ Answered(r) /\ req[r].status = 200 =>
            LET body == req[r].resBody
            IN  /\ Len(body) = Len(answers)
                /\ Range(body) = Range(answers)
                /\ \A i, j \in 1..Len(body) :
                      StrLess(body[j].uploadDate, body[i].uploadDate) => i < j

\* a list of two documents, in another order than they were inserted in
C8_Witness ==
    \E r \in Requests :
        /\ req[r].kind = "list" /\ Answered(r) /\ req[r].status = 200
        /\ Len(req[r].resBody) = 2
        /\ req[r].resBody # answers
        /\ StrLess(req[r].resBody[2].uploadDate, req[r].resBody[1].uploadDate)

\* an empty list for an empty collection
C8_WitnessEmpty ==
    \E r \in Requests :
        req[r].kind = "list" /\ Answered(r) /\ req[r].status = 200 /\ req[r].resBody = <<>>

\* C9: GET /api/uploads/:fileName is answered 404 when no file of that name
\* exists, and, asked for the fileName of the upload answered 201 just
\* before, with the bytes that upload sent.
C9_ServeUploaded ==
    \A r \in Requests :
        req[r].kind = "serve" /\ Answered(r) /\ req[r].failed = "none" =>
            /\ ~existsSync(PathJoin(uploadDir, req[r].fileName)) => req[r].status = 404
            /\ uploaded # Null /\ uploaded[1] = req[r].fileName =>
                  req[r].status = 200 /\ req[r].resBody = uploaded[2]

\* the stages of a request, in order
Lifecycle == <<"received", "connected", "handled", "responded">>

\* C10 (safety): the stages of a request come in the order received,
\* connection ensured, handled, responded, the last once; a rejected store
\* operation makes the response of that request a 500, without a retry.
C10_Safety ==
    \A r \in Requests :
        /\ \/ \E n \in 0..4 : req[r].trace = SubSeq(Lifecycle, 1, n)
           \/ req[r].trace = <<"received", "responded">> /\ req[r].failed = "connect"
        /\ req[r].responses <= 1
        /\ req[r].responses = 1 <=> req[r].pc \in {"done", "closing"}
        /\ req[r].failed \in StoreOps =>
              /\ req[r].pc \in {"done", "closing"}
              /\ req[r].status = 500
              /\ req[r].attempts <= 1

\* C10 (step): a request leaves flight only by being answered; and the step
\* in which a store operation of a request is rejected changes nothing but
\* that request: the collection, the disk and the handle are as before, and
\* the other requests go on.
C10_Step ==
    \A r \in Requests :
        /\ InFlight(req[r]) /\ ~InFlight(req'[r]) => req'[r].pc = "done"
        /\ req[r].failed = "none" /\ req'[r].failed \in StoreOps =>
              /\ UNCHANGED <<answers, disk, cachedDb>>
              /\ \A o \in Requests \ {r} : req'[o] = Closed(req[o])

\* C10: every request goes through its stages in order and, its operations
\* completing, is answered exactly once (in the end no request is in flight,
\* and a request leaves flight only by being answered); a rejected store
\* operation makes that one response a 500 and touches nothing else.
C10_Lifecycle ==
    /\ []C10_Safety
    /\ [][C10_Step]_vars
    /\ <>[](\A r \in Requests : ~InFlight(req[r]))

\* a request answered successfully after a store operation of another failed
C10_Witness ==
    /\ "handler" \in seen
    /\ \E r \in Requests :
          /\ Answered(r) /\ req[r].failed = "none" /\ req[r].status \in {200, 201}
          /\ req[r].trace = Lifecycle

====
